---- MODULE Spec2Model ----
(***************************************************************************)
(* Entitlement engine of partnersai: daily usage quota (useSubscription     *)
(* hook), promo validation and redemption and the admin actions (admin-api  *)
(* edge function), payment confirmation (razorpay-verify, razorpay-webhook),*)
(* the row policies of the tables, and the chat export parser.              *)
(*                                                                         *)
(* Time is an abstract clock `now` whose unit is one week; every tick of    *)
(* the clock therefore lands on a new calendar date, and the usage_date key *)
(* `new Date().toISOString().split('T')[0]` is modelled by the clock value. *)
(***************************************************************************)
EXTENDS Integers, Sequences, FiniteSets, Bags, TLC

\* ---------------------------------------------------------------- bounds
MaxTime == 1          \* last instant of the clock
MaxInflight == 2      \* incrementUsage calls awaiting their upsert, per user
MaxAccepted == 11     \* cap of the ghost counter of accepted sends
MaxRedeems == 2       \* redeem-promo calls are taken while times_used is below
MaxLines == 3         \* lines of a chat export given to the parser

\* ------------------------------------------------------ program constants
FREE_MSG_LIMIT == 10
baseAmountINR == 499
FullPercent == 100
\* getDurationEnd: week = 7 days, month = 1 month, year = 1 year, counted in
\* weeks, the unit of the clock.
DurWeek == 1
DurMonth == 4
DurYear == 52

Users == {"u1", "u2"}
Admins == {"a1"}
Callers == Users \cup Admins
Outsiders == {"u1"}               \* a signed-in user who tries an admin action
Sessions == {"s1", "s2"}          \* two open clients (tabs, devices)
owner(s) == "u1"                  \* both clients belong to the same user
ChatUsers == {owner(s) : s \in Sessions}
OpenSessions == {"s1"}            \* the client followed across date changes

Null == "null"             \* a null text column
NullTime == -1             \* a null timestamp column
NullInt == -1              \* a null integer column
NoRow == [plan |-> "none"] \* no row for the user (maybeSingle gives null)
Plans == {"free", "pro"}
Statuses == {"active", "cancelled", "expired"}
Durations == {"week", "month", "year"}

PromoIds == {"p1"}
NoPromo == [code |-> "none"]     \* id not allocated yet
Deleted == [code |-> "deleted"]  \* row deleted, its uuid is never reused
CodeInputs == {"save", "SAVE"}
Discounts == {<<"percentage", 100>>, <<"percentage", 50>>,
              <<"fixed", 499>>, <<"fixed", 100>>}
MaxUsesInputs == {0, 1}          \* form value 0/empty means no cap
PromoDurations == {"week", "month"}
ValidUntilInputs == {NullTime, 0}   \* no expiry, or expiry at the first instant
ValidFromInputs == {NullTime, 1}    \* body without valid_from, or a later start
CodeQueries == {"save", "SAVE", "gift"}   \* what a user types as a code
FreeDiscounts == {<<"percentage", 100>>}
Slots == {"r1", "r2"}              \* redeem-promo requests in progress
slot_of(u) == IF u = "u1" THEN "r1" ELSE "r2"
Idle == [pc |-> "idle"]
NoResp == [op |-> "none"]

Payments == {"pay1"}
order_of(p) == "ord1"              \* the order the payment was made for
payer(p) == "u1"                   \* notes.user_id of that order
Orders == {"ord1", "ord2"}
RAZORPAY_KEY_SECRET == "secret"
Keys == {RAZORPAY_KEY_SECRET, "guess"}

VARIABLES
  now,                 \* the clock (new Date())
  user_roles,          \* table user_roles: the users holding role 'admin'
  user_subscriptions,  \* table user_subscriptions, one row per user or NoRow
  daily_usage,         \* table daily_usage: (user, usage_date) -> messages_sent
  plan,                \* hook state `plan` of every client
  messagesUsedToday,   \* hook state `messagesUsedToday` of every client
  inflight,            \* incrementUsage calls between their guard and upsert
  accepted,            \* ghost: sends accepted through the counted path
  ret,                 \* ghost: outcome of the last send attempt; asPro says
                       \* whether it went through the pro branch and, if
                       \* so, whether the stored row entitled it then
  promo_codes,         \* table promo_codes
  promo_redemptions,   \* table promo_redemptions: bag of the pairs
                       \* (promo_code_id, user_id) of its rows
  redeem,              \* the redeem-promo requests, between their awaits
  successes,           \* ghost: redeem-promo calls answered with success
  gateway_events,      \* what the payment gateway has signed and sent out
  applied,             \* ghost: payment ids that have activated a subscription
  resp,                \* response produced by the last step of a server handler
  chat_messages,       \* table chat_messages: the users who own rows of it
  parser               \* parseWhatsAppChat: its input and its local variables

hookVars == <<plan, messagesUsedToday, inflight, accepted, ret>>
promoVars == <<promo_codes, promo_redemptions, redeem, successes>>
payVars == <<gateway_events, applied>>
vars == <<now, user_roles, user_subscriptions, daily_usage, hookVars,
          promoVars, payVars, resp, chat_messages, parser>>
sideVars == <<chat_messages, parser>>

\* ------------------------------------------------------------- helpers
getDurationEnd(t, duration) ==
  CASE duration = "week" -> t + DurWeek
    [] duration = "month" -> t + DurMonth
    [] duration = "year" -> t + DurYear
    [] OTHER -> t + DurMonth

\* new Date().toISOString().split('T')[0]
today == now

\* usage?.messages_sent ?? 0
messages_sent(u, d) ==
  IF <<u, d>> \in DOMAIN daily_usage THEN daily_usage[<<u, d>>] ELSE 0

\* upsert(..., { onConflict: 'user_id,usage_date' })
UpsertUsage(u, d, n) ==
  [k \in (DOMAIN daily_usage) \cup {<<u, d>>} |->
      IF k = <<u, d>> THEN n ELSE daily_usage[k]]

\* refreshUsage lines 36-45: the plan the hook derives from the stored row
EffectivePlan(sub, t) ==
  IF sub # NoRow /\ sub.plan = "pro" /\ sub.status = "active"
  THEN IF sub.current_period_end = NullTime \/ sub.current_period_end > t
       THEN "pro" ELSE "free"
  ELSE "free"

\* every column of a user_subscriptions row, with the table's defaults
DefaultRow(t) ==
  [plan |-> "free", status |-> "active", plan_duration |-> "month",
   current_period_start |-> t, current_period_end |-> NullTime,
   razorpay_payment_id |-> Null, razorpay_subscription_id |-> Null]

\* upsert(cols, { onConflict: 'user_id' }): insert with defaults, or update
\* exactly the columns given
UpsertSub(u, cols) ==
  LET old == IF user_subscriptions[u] = NoRow THEN DefaultRow(now)
             ELSE user_subscriptions[u]
  IN [user_subscriptions EXCEPT ![u] =
        [c \in DOMAIN old |-> IF c \in DOMAIN cols THEN cols[c] ELSE old[c]]]

InflightCount(u) ==
  LET RECURSIVE Sum(_)
      Sum(T) == IF T = {} THEN 0
                ELSE LET c == CHOOSE x \in T : TRUE
                     IN CopiesIn(c, inflight) + Sum(T \ {c})
  IN Sum({c \in BagToSet(inflight) : owner(c.sess) = u})

Bump(u, d) == [accepted EXCEPT ![<<u, d>>] = @ + 1]

\* ------------------------------------------------------------- Init
Init ==
  /\ now = 0
  /\ user_roles = Admins
  /\ user_subscriptions = [u \in Users |-> NoRow]
  /\ daily_usage = <<>>
  /\ plan = [s \in Sessions |-> "free"]
  /\ messagesUsedToday = [s \in Sessions |-> 0]
  /\ inflight = EmptyBag
  /\ accepted = [k \in ChatUsers \X (0..MaxTime) |-> 0]
  /\ ret = [atCap |-> FALSE, result |-> FALSE, wrote |-> FALSE, asPro |-> "no"]
  /\ promo_codes = [p \in PromoIds |-> NoPromo]
  /\ promo_redemptions = EmptyBag
  /\ redeem = [r \in Slots |-> Idle]
  /\ successes = [p \in PromoIds |-> 0]
  /\ gateway_events = {}
  /\ applied = {}
  /\ resp = NoResp
  /\ chat_messages = {}
  /\ parser = [pc |-> "idle"]

\* ------------------------------------------------------------- clock
Tick ==
  /\ now < MaxTime
  /\ now' = now + 1
  /\ resp' = NoResp
  /\ UNCHANGED <<user_roles, sideVars, user_subscriptions, daily_usage,
                 hookVars, promoVars, payVars>>

\* ------------------------------------------------- useSubscription hook
\* refreshUsage (lines 26-58): read the subscription, set plan, read today's
\* usage row, set messagesUsedToday.  The two reads follow each other without
\* any write of the hook in between and are taken as one step.
refreshUsage(s) ==
  /\ plan' = [plan EXCEPT ![s] = EffectivePlan(user_subscriptions[owner(s)], now)]
  /\ messagesUsedToday' =
       [messagesUsedToday EXCEPT ![s] = messages_sent(owner(s), today)]
  /\ UNCHANGED <<now, user_roles, sideVars, user_subscriptions, daily_usage,
                 inflight, accepted, ret, promoVars, payVars, resp>>

\* the stored state the claim of the scenario speaks about
StoredAtCap(u) ==
  /\ EffectivePlan(user_subscriptions[u], now) = "free"
  /\ messages_sent(u, today) = FREE_MSG_LIMIT

\* incrementUsage line 63: messagesUsedToday >= FREE_MSG_LIMIT
atLimit_offByOne(used) == used > FREE_MSG_LIMIT
atLimit(used) == used >= FREE_MSG_LIMIT

\* incrementUsage line 62: a client whose plan state is pro accepts at once
incrementUsagePro(s) ==
  /\ plan[s] = "pro"
  /\ ret' = [atCap |-> StoredAtCap(owner(s)), result |-> TRUE, wrote |-> FALSE,
             asPro |-> IF EffectivePlan(user_subscriptions[owner(s)], now) = "pro"
                       THEN "entitled" ELSE "lapsed"]
  /\ UNCHANGED <<now, user_roles, sideVars, user_subscriptions, daily_usage,
                 plan, messagesUsedToday, inflight, accepted, promoVars,
                 payVars, resp>>

\* incrementUsage line 63: the client's own count is at the limit
incrementUsageReject(s) ==
  /\ plan[s] # "pro"
  /\ atLimit(messagesUsedToday[s])
  /\ ret' = [atCap |-> StoredAtCap(owner(s)), result |-> FALSE, wrote |-> FALSE,
             asPro |-> "no"]
  /\ UNCHANGED <<now, user_roles, sideVars, user_subscriptions, daily_usage,
                 plan, messagesUsedToday, inflight, accepted, promoVars,
                 payVars, resp>>

\* incrementUsage lines 65-74: today and newCount are computed from the
\* values of this render and the upsert is sent
incrementUsageStart(s) ==
  /\ plan[s] # "pro"
  /\ ~atLimit(messagesUsedToday[s])
  /\ InflightCount(owner(s)) < MaxInflight
  /\ inflight' = inflight (+) SetToBag({[sess |-> s, today |-> today,
                                        newCount |-> messagesUsedToday[s] + 1,
                                        atCap |-> StoredAtCap(owner(s))]})
  /\ UNCHANGED <<now, user_roles, sideVars, user_subscriptions, daily_usage,
                 plan, messagesUsedToday, accepted, ret, promoVars, payVars,
                 resp>>

\* incrementUsage lines 68-78: the upsert is applied, the call sets
\* messagesUsedToday and returns true
incrementUsageDone(c) ==
  /\ BagIn(c, inflight)
  /\ accepted[<<owner(c.sess), c.today>>] < MaxAccepted
  /\ inflight' = inflight (-) SetToBag({c})
  /\ daily_usage' = UpsertUsage(owner(c.sess), c.today, c.newCount)
  /\ messagesUsedToday' = [messagesUsedToday EXCEPT ![c.sess] = c.newCount]
  /\ accepted' = Bump(owner(c.sess), c.today)
  /\ ret' = [atCap |-> c.atCap, result |-> TRUE, wrote |-> TRUE, asPro |-> "no"]
  /\ UNCHANGED <<now, user_roles, sideVars, user_subscriptions, plan,
                 promoVars, payVars, resp>>

\* incrementUsage lines 76-80: the upsert failed, the call returns false
incrementUsageError(c) ==
  /\ BagIn(c, inflight)
  /\ inflight' = inflight (-) SetToBag({c})
  /\ ret' = [atCap |-> c.atCap, result |-> FALSE, wrote |-> FALSE,
             asPro |-> "no"]
  /\ UNCHANGED <<now, user_roles, sideVars, user_subscriptions, daily_usage,
                 plan, messagesUsedToday, accepted, promoVars, payVars, resp>>

\* ------------------------------------------------- admin-api (part_005)
\* lines 49-58: every action but validate-promo and redeem-promo needs a
\* user_roles row with role 'admin'
IsAdmin(caller) == caller \in user_roles

\* lines 45-47: the actions that do not require admin
userActions == {"validate-promo", "redeem-promo"}
isUserAction_more(action) == action \in userActions \cup {"delete-subscription"}
isUserAction(action) == action \in userActions

\* lines 49-58: the role is looked up only for the other actions
Authorized(caller, action) == isUserAction(action) \/ IsAdmin(caller)

\* the ?action= values of the handler's branches, a value it has no branch
\* for, and a request without the parameter
ReadActions == {"users", "stats", "promo-codes"}
WriteActions == {"update-subscription", "delete-subscription", "add-admin",
                 "remove-admin", "delete-user-data", "create-promo",
                 "update-promo", "delete-promo"}
OtherActions == {"export", Null}
AdminActions == ReadActions \cup WriteActions \cup OtherActions

\* lines 57, 319-326: 'Forbidden: Admin access required' gives status 403
Forbidden(caller, action) ==
  /\ ~Authorized(caller, action)
  /\ resp' = [op |-> action, caller |-> caller, status |-> 403]
  /\ UNCHANGED <<now, user_roles, sideVars, user_subscriptions, daily_usage,
                 hookVars, promoVars, payVars>>

\* lines 24-35: no Authorization header gives 'No auth token' (400), a token
\* auth.getUser rejects gives 'Unauthorized' (401); nothing was read or
\* written before
NoToken == "no-token"
BadToken == "bad-token"
Unauthenticated(token, action) ==
  /\ token \in {NoToken, BadToken}
  /\ resp' = [op |-> action, caller |-> Null, token |-> token,
              status |-> IF token = NoToken THEN 400 ELSE 401]
  /\ UNCHANGED <<now, user_roles, sideVars, user_subscriptions, daily_usage,
                 hookVars, promoVars, payVars>>

\* GET users, stats, promo-codes, lines 61-119: reads only
AdminRead(caller, action) ==
  /\ action \in ReadActions
  /\ Authorized(caller, action)
  /\ resp' = [op |-> action, caller |-> caller, status |-> 200]
  /\ UNCHANGED <<now, user_roles, sideVars, user_subscriptions, daily_usage,
                 hookVars, promoVars, payVars>>

\* line 318: no branch took the request, 'Invalid action' gives status 400
InvalidAction(caller, action) ==
  /\ action \in OtherActions
  /\ Authorized(caller, action)
  /\ resp' = [op |-> action, caller |-> caller, status |-> 400]
  /\ UNCHANGED <<now, user_roles, sideVars, user_subscriptions, daily_usage,
                 hookVars, promoVars, payVars>>

\* add-admin, lines 149-155: upsert (user_id, 'admin') into user_roles
AddAdmin(caller, userId) ==
  /\ Authorized(caller, "add-admin")
  /\ user_roles' = user_roles \cup {userId}
  /\ resp' = [op |-> "add-admin", caller |-> caller, status |-> 200]
  /\ UNCHANGED <<now, sideVars, user_subscriptions, daily_usage, hookVars,
                 promoVars, payVars>>

\* remove-admin, lines 157-163
RemoveAdmin(caller, userId) ==
  /\ Authorized(caller, "remove-admin")
  /\ user_roles' = user_roles \ {userId}
  /\ resp' = [op |-> "remove-admin", caller |-> caller, status |-> 200]
  /\ UNCHANGED <<now, sideVars, user_subscriptions, daily_usage, hookVars,
                 promoVars, payVars>>

IsRow(r) == r.code \notin {"none", "deleted"}

\* code.toUpperCase() on the codes of the model
toUpperCase(c) == IF c = "save" THEN "SAVE"
                  ELSE IF c = "gift" THEN "GIFT" ELSE c

\* create-promo, lines 177-194
CreatePromo(caller, code, disc, max_uses, valid_from, valid_until, duration, active) ==
  /\ Authorized(caller, "create-promo")
  /\ \E p \in PromoIds :
       /\ promo_codes[p] = NoPromo
       /\ IF \E q \in PromoIds : IsRow(promo_codes[q])
                                  /\ promo_codes[q].code = toUpperCase(code)
          THEN \* code TEXT NOT NULL UNIQUE: the insert fails, error thrown
               /\ resp' = [op |-> "create-promo", caller |-> caller,
                           status |-> 400]
               /\ UNCHANGED promo_codes
          ELSE /\ promo_codes' = [promo_codes EXCEPT ![p] =
                    [code |-> toUpperCase(code),
                     discount_type |-> disc[1], discount_value |-> disc[2],
                     max_uses |-> IF max_uses = 0 THEN NullInt ELSE max_uses,
                     times_used |-> 0,
                     valid_from |-> IF valid_from = NullTime THEN now
                                    ELSE valid_from,
                     valid_until |-> valid_until,
                     plan_duration |-> duration, is_active |-> active]]
               /\ resp' = [op |-> "create-promo", caller |-> caller,
                           status |-> 200]
  /\ UNCHANGED <<now, user_roles, sideVars, user_subscriptions, daily_usage,
                 hookVars, promo_redemptions, redeem, successes, payVars>>

\* update-promo, lines 196-204, with updates = { is_active }
UpdatePromo(caller, promoId, active) ==
  /\ Authorized(caller, "update-promo")
  /\ promo_codes' = IF IsRow(promo_codes[promoId])
                    THEN [promo_codes EXCEPT ![promoId].is_active = active]
                    ELSE promo_codes
  /\ resp' = [op |-> "update-promo", caller |-> caller,
              status |-> 200]
  /\ UNCHANGED <<now, user_roles, sideVars, user_subscriptions, daily_usage,
                 hookVars, promo_redemptions, redeem, successes, payVars>>

\* delete-promo, lines 206-212; promo_redemptions.promo_code_id is
\* ON DELETE CASCADE (part_004 line 36)
DeletePromo(caller, promoId) ==
  /\ Authorized(caller, "delete-promo")
  /\ IsRow(promo_codes[promoId])
  /\ promo_codes' = [promo_codes EXCEPT ![promoId] = Deleted]
  /\ promo_redemptions' =
       [row \in {x \in BagToSet(promo_redemptions) : x[1] # promoId} |->
           promo_redemptions[row]]
  /\ resp' = [op |-> "delete-promo", caller |-> caller,
              status |-> 200]
  /\ UNCHANGED <<now, user_roles, sideVars, user_subscriptions, daily_usage,
                 hookVars, redeem, successes, payVars>>

\* redeem-promo lines 283-284
isFreePromo_anyType(promo) == promo.discount_value >= FullPercent
isFreePromo(promo) ==
  \/ promo.discount_type = "percentage" /\ promo.discount_value >= FullPercent
  \/ promo.discount_type = "fixed" /\ promo.discount_value >= baseAmountINR

\* redeem-promo lines 272-279: .eq('id', promoId).eq('is_active', true)
SelectActivePromo(promoId) ==
  IF promoId \in PromoIds /\ IsRow(promo_codes[promoId])
     /\ promo_codes[promoId].is_active
  THEN promo_codes[promoId] ELSE NoPromo

RedeemError(u, promoId, msg) ==
  [op |-> "redeem-promo", caller |-> u, promoId |-> promoId, status |-> 400,
   success |-> FALSE, error |-> msg]

\* redeem-promo lines 270-288: select the code, throw unless it is a free one
RedeemPromoRead(r, u, promoId) ==
  /\ redeem[r] = Idle
  /\ LET promo == SelectActivePromo(promoId) IN
       IF promo = NoPromo
       THEN /\ resp' = RedeemError(u, promoId, "Invalid promo code")
            /\ UNCHANGED redeem
       ELSE IF ~isFreePromo(promo)
       THEN /\ resp' = RedeemError(u, promoId, "Please proceed with payment")
            /\ UNCHANGED redeem
       ELSE /\ promo.times_used < MaxRedeems
            /\ successes[promoId] < MaxRedeems
            /\ redeem' = [redeem EXCEPT ![r] =
                 [pc |-> "insert", user |-> u, promoId |-> promoId,
                  times_used |-> promo.times_used,
                  plan_duration |-> promo.plan_duration,
                  already |-> BagIn(<<promoId, u>>, promo_redemptions),
                  failed |-> FALSE]]
            /\ resp' = NoResp
  /\ UNCHANGED <<now, user_roles, sideVars, user_subscriptions, daily_usage,
                 hookVars, promo_codes, promo_redemptions, successes,
                 payVars>>

\* part_004 line 36: promo_code_id REFERENCES promo_codes(id)
violatesForeignKey(row) == ~IsRow(promo_codes[row[1]])

\* part_004 line 39: UNIQUE(promo_code_id, user_id)
violatesUnique_never(row) == FALSE
violatesUnique(row) == BagIn(row, promo_redemptions)

\* lines 290-294: insert into promo_redemptions; the result is not looked
\* at, so after a unique or foreign-key violation the table is as it was
\* and the handler goes on (failed is a ghost that remembers the rejection)
RedeemPromoInsert(r) ==
  /\ redeem[r].pc = "insert"
  /\ LET row == <<redeem[r].promoId, redeem[r].user>>
         rejected == violatesForeignKey(row) \/ violatesUnique(row)
     IN /\ promo_redemptions' = IF rejected THEN promo_redemptions
                                ELSE promo_redemptions (+) SetToBag({row})
        /\ redeem' = [redeem EXCEPT ![r].pc = "update",
                                    ![r].failed = rejected]
  /\ resp' = NoResp
  /\ UNCHANGED <<now, user_roles, sideVars, user_subscriptions, daily_usage,
                 hookVars, promo_codes, successes, payVars>>

\* lines 296-299: times_used = (the value read at line 272) + 1
RedeemPromoUpdate(r) ==
  /\ redeem[r].pc = "update"
  /\ promo_codes' =
       IF IsRow(promo_codes[redeem[r].promoId])
       THEN [promo_codes EXCEPT ![redeem[r].promoId].times_used =
                                   redeem[r].times_used + 1]
       ELSE promo_codes
  /\ redeem' = [redeem EXCEPT ![r].pc = "activate"]
  /\ resp' = NoResp
  /\ UNCHANGED <<now, user_roles, sideVars, user_subscriptions, daily_usage,
                 hookVars, promo_redemptions, successes, payVars>>

\* lines 301-314: upsert the subscription, answer success
RedeemPromoActivate(r) ==
  /\ redeem[r].pc = "activate"
  /\ user_subscriptions' = UpsertSub(redeem[r].user,
        [plan |-> "pro", status |-> "active",
         plan_duration |-> redeem[r].plan_duration,
         current_period_start |-> now,
         current_period_end |-> getDurationEnd(now, redeem[r].plan_duration)])
  /\ successes' = [successes EXCEPT ![redeem[r].promoId] = @ + 1]
  /\ resp' = [op |-> "redeem-promo", caller |-> redeem[r].user,
              promoId |-> redeem[r].promoId, status |-> 200,
              success |-> TRUE, already |-> redeem[r].already]
  /\ redeem' = [redeem EXCEPT ![r] = Idle]
  /\ UNCHANGED <<now, user_roles, sideVars, daily_usage, hookVars,
                 promo_codes, promo_redemptions, payVars>>

\* validate-promo lines 217-222: .eq('code', code.toUpperCase())
\* .eq('is_active', true).maybeSingle(); code is UNIQUE
SelectActiveByCode(code) ==
  LET found == {p \in PromoIds : /\ IsRow(promo_codes[p])
                                 /\ promo_codes[p].code = toUpperCase(code)
                                 /\ promo_codes[p].is_active}
  IN IF found = {} THEN Null ELSE CHOOSE p \in found : TRUE

\* validate-promo line 231: promo.valid_until && new Date(valid_until) < new Date()
expired_offByOne(promo, t) ==
  promo.valid_until # NullTime /\ promo.valid_until + 1 < t
expired(promo, t) == promo.valid_until # NullTime /\ promo.valid_until < t

\* validate-promo line 238: promo.max_uses && times_used >= max_uses
fullyRedeemed(promo) ==
  promo.max_uses # NullInt /\ promo.max_uses # 0
  /\ promo.times_used >= promo.max_uses

ValidateAnswer(u, code, valid, msg, promo_id) ==
  [op |-> "validate-promo", caller |-> u, code |-> code, status |-> 200,
   valid |-> valid, error |-> msg, promo_id |-> promo_id]

\* validate-promo, lines 215-267: the two reads write nothing and are taken
\* as one step
ValidatePromo(u, code) ==
  /\ LET id == SelectActiveByCode(code) IN
       resp' = IF id = Null
               THEN ValidateAnswer(u, code, FALSE, "Invalid promo code", Null)
               ELSE IF expired(promo_codes[id], now)
               THEN ValidateAnswer(u, code, FALSE, "Promo code expired", Null)
               ELSE IF fullyRedeemed(promo_codes[id])
               THEN ValidateAnswer(u, code, FALSE,
                                   "Promo code fully redeemed", Null)
               ELSE IF BagIn(<<id, u>>, promo_redemptions)
               THEN ValidateAnswer(u, code, FALSE,
                                   "Already used this promo code", Null)
               ELSE ValidateAnswer(u, code, TRUE, Null, id)
  /\ UNCHANGED <<now, user_roles, sideVars, user_subscriptions, daily_usage,
                 hookVars, promoVars, payVars>>

NextPromo ==
  \/ Tick
  \/ \E c \in Outsiders : Forbidden(c, "create-promo")
  \/ \E c \in Callers, code \in CodeInputs, disc \in Discounts, m \in MaxUsesInputs, vu \in ValidUntilInputs, d \in PromoDurations, a \in BOOLEAN : CreatePromo(c, code, disc, m, NullTime, vu, d, a)
  \/ \E c \in Callers, p \in PromoIds, a \in BOOLEAN : UpdatePromo(c, p, a)
  \/ \E c \in Callers, p \in PromoIds : DeletePromo(c, p)
  \/ \E u \in Users, p \in PromoIds : RedeemPromoRead(slot_of(u), u, p)
  \/ \E r \in Slots : RedeemPromoInsert(r)
  \/ \E r \in Slots : RedeemPromoUpdate(r)
  \/ \E r \in Slots : RedeemPromoActivate(r)

SpecPromo == Init /\ [][NextPromo]_vars

\* validation of codes while admins create, switch and delete them and
\* users redeem them
NextValidate ==
  \/ Tick
  \/ \E c \in Admins, code \in CodeInputs, disc \in FreeDiscounts, m \in MaxUsesInputs, vf \in ValidFromInputs, vu \in ValidUntilInputs, a \in BOOLEAN : CreatePromo(c, code, disc, m, vf, vu, "week", a)
  \/ \E c \in Admins, p \in PromoIds, a \in BOOLEAN : UpdatePromo(c, p, a)
  \/ \E c \in Admins, p \in PromoIds : DeletePromo(c, p)
  \/ \E u \in Users, p \in PromoIds : RedeemPromoRead(slot_of(u), u, p)
  \/ \E r \in Slots : RedeemPromoInsert(r)
  \/ \E r \in Slots : RedeemPromoUpdate(r)
  \/ \E r \in Slots : RedeemPromoActivate(r)
  \/ \E u \in Users, code \in CodeQueries : ValidatePromo(u, code)

SpecValidate == Init /\ [][NextValidate]_vars

\* redeem-promo calls that overlap, of one user or of two, while an admin
\* creates, switches and deletes the code
NextRace ==
  \/ \E c \in Admins, code \in CodeInputs, disc \in FreeDiscounts, m \in MaxUsesInputs, a \in BOOLEAN : CreatePromo(c, code, disc, m, NullTime, NullTime, "week", a)
  \/ \E c \in Admins, p \in PromoIds, a \in BOOLEAN : UpdatePromo(c, p, a)
  \/ \E c \in Admins, p \in PromoIds : DeletePromo(c, p)
  \/ \E r \in Slots, u \in Users, p \in PromoIds : RedeemPromoRead(r, u, p)
  \/ \E r \in Slots : RedeemPromoInsert(r)
  \/ \E r \in Slots : RedeemPromoUpdate(r)
  \/ \E r \in Slots : RedeemPromoActivate(r)

SpecRace == Init /\ [][NextRace]_vars

\* ------------------------------------- admin-api: subscription actions
\* what AdminPage.tsx sends (lines 336, 350, 362)
AdminRequests_expiredDowngrade ==
  {[plan |-> "pro", status |-> "active", duration |-> d] : d \in Durations}
  \cup {[plan |-> "free", status |-> "expired", duration |-> "month"]}
AdminRequests ==
  {[plan |-> "pro", status |-> "active", duration |-> d] : d \in Durations}
  \cup {[plan |-> "free", status |-> "active", duration |-> "month"]}

\* the upgrade followed across its period end: pro for one week
\* the user the admin requests of the authorization runs are about, and the
\* code they create
AuthTargets == {"u1"}
AuthCodes == {"save"}

QuotaRequests == {[plan |-> "pro", status |-> "active", duration |-> "week"]}

\* update-subscription, lines 123-139
AdminUpdateSubscription(caller, userId, p, status, duration) ==
  /\ Authorized(caller, "update-subscription")
  /\ user_subscriptions' = UpsertSub(userId,
        [plan |-> p, status |-> status, plan_duration |-> duration,
         current_period_start |-> now,
         current_period_end |-> IF p = "pro" THEN getDurationEnd(now, duration)
                                ELSE NullTime])
  /\ resp' = [op |-> "update-subscription", caller |-> caller,
              status |-> 200]
  /\ UNCHANGED <<now, user_roles, sideVars, daily_usage, hookVars, promoVars,
                 payVars>>

\* line 143: from('user_subscriptions').delete().eq('user_id', userId)
DeleteSubscriptionRow_downgrade(userId) ==
  [user_subscriptions EXCEPT ![userId] = DefaultRow(now)]
DeleteSubscriptionRow(userId) ==
  [user_subscriptions EXCEPT ![userId] = NoRow]

\* delete-subscription, lines 141-147
AdminDeleteSubscription(caller, userId) ==
  /\ Authorized(caller, "delete-subscription")
  /\ user_subscriptions' = DeleteSubscriptionRow(userId)
  /\ resp' = [op |-> "delete-subscription", caller |-> caller,
              status |-> 200, userId |-> userId]
  /\ UNCHANGED <<now, user_roles, sideVars, daily_usage, hookVars, promoVars,
                 payVars>>

\* delete-user-data, lines 165-174: chat_messages, imported_chats,
\* chat_sessions and daily_usage rows of the user are deleted (imported_chats
\* and chat_sessions are not part of the state)
AdminDeleteUserData(caller, userId) ==
  /\ Authorized(caller, "delete-user-data")
  /\ chat_messages' = chat_messages \ {userId}
  /\ daily_usage' = [k \in {x \in DOMAIN daily_usage : x[1] # userId} |->
                       daily_usage[k]]
  /\ resp' = [op |-> "delete-user-data", caller |-> caller,
              status |-> 200, userId |-> userId]
  /\ UNCHANGED <<now, parser, user_roles, user_subscriptions, hookVars,
                 promoVars, payVars>>

\* ChatView sendMessage, part_001 lines 161-167: the user's message is
\* inserted into chat_messages
PersistMessage(u) ==
  /\ chat_messages' = chat_messages \cup {u}
  /\ resp' = NoResp
  /\ UNCHANGED <<now, parser, user_roles, user_subscriptions, daily_usage,
                 hookVars, promoVars, payVars>>

\* SettingsPage handleDeleteAll, lines 65-78: the signed-in user deletes
\* their chat_messages, imported_chats and chat_sessions rows
handleDeleteAll(u) ==
  /\ chat_messages' = chat_messages \ {u}
  /\ resp' = [op |-> "delete-all", status |-> 200, userId |-> u]
  /\ UNCHANGED <<now, parser, user_roles, user_subscriptions, daily_usage,
                 hookVars, promoVars, payVars>>

\* ------------------------------------------- row policies (part_003)
\* "Users can insert own subscription" WITH CHECK (auth.uid() = user_id) and
\* "Users can update own subscription" USING (auth.uid() = user_id), lines
\* 21-27: a signed-in user may upsert any columns of the row whose user_id is
\* their own through the REST interface of the table.
DirectWriteInputs ==
  {[plan |-> "pro", status |-> "active", current_period_end |-> NullTime]}

PolicyAllowsWrite(uid, row_user_id) == uid = row_user_id

DirectWrite(uid, row_user_id, cols) ==
  /\ IF PolicyAllowsWrite(uid, row_user_id)
     THEN /\ user_subscriptions' = UpsertSub(row_user_id, cols)
          /\ resp' = [op |-> "rest-upsert", caller |-> uid, status |-> 200]
     ELSE /\ UNCHANGED user_subscriptions
          /\ resp' = [op |-> "rest-upsert", caller |-> uid, status |-> 403]
  /\ UNCHANGED <<now, user_roles, sideVars, daily_usage, hookVars, promoVars,
                 payVars>>

\* ------------------------------------------------- payment confirmation
\* HMAC-SHA256 in hex: a keyed hash is modelled by the pair of its key and
\* its message; two of them are equal only for the same key and message.
Hmac(secret, data) == <<secret>> \o data

\* `${orderId}|${paymentId}`
VerifyData(orderId, paymentId) == <<orderId, "|", paymentId>>

\* razorpay-verify lines 9-18
verifySignature_keyOnly(orderId, paymentId, signature, secret) ==
  signature[1] = secret
verifySignature(orderId, paymentId, signature, secret) ==
  Hmac(secret, VerifyData(orderId, paymentId)) = signature

\* razorpay-webhook lines 9-17
verifyWebhookSignature(body, signature, secret) ==
  Hmac(secret, body) = signature

\* raw webhook body: event, payload.payment.entity.id, .order_id,
\* .notes.user_id
Events == {"payment.captured", "payment.failed"}
Body(ev, p, uid) == <<ev, p, order_of(p), uid>>
AllBodies == {Body(ev, p, uid) : ev \in Events, p \in Payments,
                                 uid \in Users \cup {Null}}

\* the gateway captures (or fails) a payment of an order made by create-order
\* (notes.user_id is the user who made the order); it hands the signed
\* triple to the paying client and sends the signed webhook
GatewayEvent(ev, p) ==
  /\ Body(ev, p, payer(p)) \notin gateway_events
  /\ gateway_events' = gateway_events \cup {Body(ev, p, payer(p))}
  /\ resp' = NoResp
  /\ UNCHANGED <<now, user_roles, sideVars, user_subscriptions, daily_usage,
                 hookVars, promoVars, applied>>

\* the signatures that exist outside the gateway: those it has issued, and
\* hashes made with a guessed key
IssuedSigs ==
  {Hmac(RAZORPAY_KEY_SECRET, b) : b \in gateway_events}
  \cup {Hmac(RAZORPAY_KEY_SECRET, VerifyData(b[3], b[2])) :
          b \in {e \in gateway_events : e[1] = "payment.captured"}}

\* every hash over a message of the model, with the real or a guessed key
AllSigs ==
  {Hmac(k, b) : k \in Keys, b \in AllBodies}
  \cup {Hmac(k, VerifyData(o, p)) : k \in Keys, o \in Orders, p \in Payments}

\* a caller can present a signature the gateway has issued, or a hash of the
\* message made without the secret
Presentable(signature, message) ==
  signature \in IssuedSigs \/ signature = Hmac("guess", message)

\* razorpay-verify serve, lines 20-74
Verify(user, razorpay_order_id, razorpay_payment_id, razorpay_signature) ==
  LET genuine == razorpay_signature =
                   Hmac(RAZORPAY_KEY_SECRET,
                        VerifyData(razorpay_order_id, razorpay_payment_id))
      valid == verifySignature(razorpay_order_id, razorpay_payment_id,
                               razorpay_signature, RAZORPAY_KEY_SECRET)
  IN
  /\ Presentable(razorpay_signature,
                 VerifyData(razorpay_order_id, razorpay_payment_id))
  /\ IF ~valid
     THEN /\ resp' = [op |-> "verify", caller |-> user, status |-> 400,
                      payment |-> razorpay_payment_id, genuine |-> genuine]
          /\ UNCHANGED <<user_subscriptions, applied>>
     ELSE /\ user_subscriptions' = UpsertSub(user,
               [plan |-> "pro", status |-> "active",
                razorpay_payment_id |-> razorpay_payment_id,
                razorpay_subscription_id |-> razorpay_order_id,
                current_period_start |-> now,
                current_period_end |-> getDurationEnd(now, "month")])
          /\ applied' = applied \cup {razorpay_payment_id}
          /\ resp' = [op |-> "verify", caller |-> user, status |-> 200,
                      payment |-> razorpay_payment_id, genuine |-> genuine]
  /\ UNCHANGED <<now, user_roles, sideVars, daily_usage, hookVars, promoVars,
                 gateway_events>>

\* razorpay-webhook serve, lines 19-86
Webhook(body, signature) ==
  LET genuine == signature = Hmac(RAZORPAY_KEY_SECRET, body)
      valid == verifyWebhookSignature(body, signature, RAZORPAY_KEY_SECRET)
      eventType == body[1]
      payment_id == body[2]
      order_id == body[3]
      userId == body[4]
  IN
  /\ Presentable(signature, body)
  /\ IF ~valid
     THEN /\ resp' = [op |-> "webhook", caller |-> Null, status |-> 400,
                      payment |-> payment_id, genuine |-> genuine]
          /\ UNCHANGED <<user_subscriptions, applied>>
     ELSE /\ IF eventType = "payment.captured" /\ userId # Null
             THEN /\ user_subscriptions' = UpsertSub(userId,
                       [plan |-> "pro", status |-> "active",
                        razorpay_payment_id |-> payment_id,
                        razorpay_subscription_id |-> order_id,
                        current_period_start |-> now,
                        current_period_end |-> getDurationEnd(now, "month")])
                  /\ applied' = applied \cup {payment_id}
             ELSE UNCHANGED <<user_subscriptions, applied>>
          /\ resp' = [op |-> "webhook", caller |-> Null, status |-> 200,
                      payment |-> payment_id, genuine |-> genuine]
  /\ UNCHANGED <<now, user_roles, sideVars, daily_usage, hookVars, promoVars,
                 gateway_events>>

NextPay ==
  \/ Tick
  \/ \E ev \in Events, p \in Payments : GatewayEvent(ev, p)
  \/ \E u \in Users, o \in Orders, p \in Payments, sig \in AllSigs : Verify(u, o, p, sig)
  \/ \E body \in AllBodies, sig \in AllSigs : Webhook(body, sig)
  \/ \E c \in Outsiders : Forbidden(c, "update-subscription")
  \/ \E c \in Callers, u \in Users, r \in AdminRequests :
       AdminUpdateSubscription(c, u, r.plan, r.status, r.duration)
  \/ \E c \in Callers, u \in Users : AdminDeleteSubscription(c, u)
  \/ \E uid \in Users, row \in Users, cols \in DirectWriteInputs :
       DirectWrite(uid, row, cols)

SpecPay == Init /\ [][NextPay]_vars

\* ------------------------------------------------ razorpay-create-order
\* line 35: the price of the pro plan in the minor unit of the currency
basePrice(currency) == IF currency = "INR" THEN 49900 ELSE 900
MinAmount == 100                  \* line 55: Math.max(100, ...)

\* Math.round of n / d for d > 0: the nearest integer, halves upwards
round(n, d) == (2 * n + d) \div (2 * d)

\* lines 50-57: the amount after the discount of the promo row
discountedAmount(amount, promo) ==
  IF promo.discount_type = "percentage"
  THEN round(amount * (100 - promo.discount_value), 100)
  ELSE IF promo.discount_type = "fixed"
  THEN LET fixedPaise == promo.discount_value * 100
       IN IF amount - fixedPaise > MinAmount THEN amount - fixedPaise
          ELSE MinAmount
  ELSE amount

\* what a client puts in the body: handleUpgrade sends plan 'pro', the
\* currency chosen and the promo id it holds, if any
PlanInputs == {"pro", "free"}
CurrencyInputs == {"INR", "USD", Null}
PromoIdInputs == PromoIds \cup {Null}
OrderDiscounts ==
  {<<"percentage", 50>>, <<"percentage", 95>>, <<"percentage", 100>>,
   <<"fixed", 8>>, <<"fixed", 100>>, <<"fixed", 499>>}

\* serve, lines 31-96: the order sent to the gateway (resp.amount), or the
\* error answered
createOrder(u, reqPlan, reqCurrency, promoId) ==
  /\ IF reqPlan # "pro"
     THEN resp' = [op |-> "create-order", caller |-> u, status |-> 400]
     ELSE LET currency == IF reqCurrency = "USD" THEN "USD" ELSE "INR"
              base == basePrice(currency)
              promo == IF promoId = Null THEN NoPromo
                       ELSE SelectActivePromo(promoId)
              amount == IF promo = NoPromo THEN base
                        ELSE discountedAmount(base, promo)
          IN resp' = [op |-> "create-order", caller |-> u, status |-> 200,
                      currency |-> currency, promoId |-> promoId,
                      amount |-> amount]
  /\ UNCHANGED <<now, user_roles, sideVars, user_subscriptions, daily_usage,
                 hookVars, promoVars, payVars>>

\* orders made while an admin creates and switches codes, time passes and
\* free codes are redeemed
NextOrder ==
  \/ Tick
  \/ \E c \in Admins, code \in AuthCodes, disc \in OrderDiscounts, m \in MaxUsesInputs, vu \in ValidUntilInputs : CreatePromo(c, code, disc, m, NullTime, vu, "week", TRUE)
  \/ \E c \in Admins, p \in PromoIds, a \in BOOLEAN : UpdatePromo(c, p, a)
  \/ \E u \in AuthTargets, p \in PromoIds : RedeemPromoRead(slot_of(u), u, p)
  \/ \E r \in Slots : RedeemPromoInsert(r)
  \/ \E r \in Slots : RedeemPromoUpdate(r)
  \/ \E r \in Slots : RedeemPromoActivate(r)
  \/ \E u \in AuthTargets, pl \in PlanInputs, cur \in CurrencyInputs, p \in PromoIdInputs : createOrder(u, pl, cur, p)

SpecOrder == Init /\ [][NextOrder]_vars

\* every writer of user_subscriptions.status that runs on the server:
\* webhook, payment verification, promo redemption and the admin actions
NextStatus ==
  \/ Tick
  \/ \E ev \in Events, p \in Payments : GatewayEvent(ev, p)
  \/ \E u \in AuthTargets, o \in Orders, p \in Payments, sig \in IssuedSigs : Verify(u, o, p, sig)
  \/ \E body \in AllBodies, sig \in IssuedSigs : Webhook(body, sig)
  \/ \E c \in Admins, u \in AuthTargets, r \in AdminRequests :
       AdminUpdateSubscription(c, u, r.plan, r.status, r.duration)
  \/ \E c \in Admins, u \in AuthTargets : AdminDeleteSubscription(c, u)
  \/ \E c \in Admins, code \in AuthCodes, disc \in FreeDiscounts : CreatePromo(c, code, disc, 0, NullTime, NullTime, "week", TRUE)
  \/ \E u \in AuthTargets, p \in PromoIds : RedeemPromoRead(slot_of(u), u, p)
  \/ \E r \in Slots : RedeemPromoInsert(r)
  \/ \E r \in Slots : RedeemPromoUpdate(r)
  \/ \E r \in Slots : RedeemPromoActivate(r)

SpecStatus == Init /\ [][NextStatus]_vars

\* deletions by the admin and by the user, next to upgrades and a client
\* that reloads its plan
NextDelete ==
  \/ \E c \in Admins, u \in Users, r \in AdminRequests :
       AdminUpdateSubscription(c, u, r.plan, r.status, r.duration)
  \/ \E c \in Admins, u \in Users : AdminDeleteSubscription(c, u)
  \/ \E c \in Admins, u \in Users : AdminDeleteUserData(c, u)
  \/ \E u \in Users : PersistMessage(u)
  \/ \E u \in Users : handleDeleteAll(u)
  \/ \E s \in OpenSessions : refreshUsage(s)

SpecDelete == Init /\ [][NextDelete]_vars

\* every branch of the admin-api handler, called by admins, by users
\* without the role and without a valid token
NextAuth ==
  \/ \E t \in {NoToken, BadToken}, a \in AdminActions : Unauthenticated(t, a)
  \/ \E c \in Callers, a \in AdminActions : Forbidden(c, a)
  \/ \E c \in Callers, a \in AdminActions : AdminRead(c, a)
  \/ \E c \in Callers, a \in AdminActions : InvalidAction(c, a)
  \/ \E c \in Callers, u \in AuthTargets : AddAdmin(c, u)
  \/ \E c \in Callers, u \in AuthTargets : RemoveAdmin(c, u)
  \/ \E c \in Callers, u \in AuthTargets, r \in QuotaRequests :
       AdminUpdateSubscription(c, u, r.plan, r.status, r.duration)
  \/ \E c \in Callers, u \in AuthTargets : AdminDeleteSubscription(c, u)
  \/ \E c \in Callers, u \in AuthTargets : AdminDeleteUserData(c, u)
  \/ \E c \in Callers, code \in AuthCodes, disc \in FreeDiscounts : CreatePromo(c, code, disc, 0, NullTime, NullTime, "week", TRUE)
  \/ \E c \in Callers, p \in PromoIds, a \in BOOLEAN : UpdatePromo(c, p, a)
  \/ \E c \in Callers, p \in PromoIds : DeletePromo(c, p)
  \/ \E u \in AuthTargets : PersistMessage(u)

SpecAuth == Init /\ [][NextAuth]_vars

\* ------------------------------------------------ chat parser (part_002)
\* An input line is given as the fields WHATSAPP_REGEX splits it into,
\* <<date, time, sender, text>> with date = <<a, b, y>> and time =
\* <<hours, minutes, am/pm suffix>>, or as <<text>> when the expression does
\* not match it.  A message text is the sequence of its pieces, the "\n"
\* separators included.
PreviewLimit == 30
ExportDate == <<12, 3, 24>>
NextDate == <<13, 3, 24>>        \* the day after, in a day-first export
E2ENotice == "Messages and calls are end-to-end encrypted"
\* a notice of the application itself: the line carries a date and a time
\* but no "sender: ", so WHATSAPP_REGEX does not match it
SecurityNotice == "12/03/24, 9:20 am - Your security code with Bob changed"
LineInputs ==
  {<<ExportDate, <<9, 15, "am">>, "Alice", "hi">>,
   <<ExportDate, <<9, 16, "am">>, "Bob", "hello">>,
   <<ExportDate, <<9, 14, "am">>, "Carol", E2ENotice>>,
   <<ExportDate, <<9, 17, "am">>, "Bob ", "ok">>,
   <<NextDate, <<9, 15, "am">>, "Alice", "hi">>,
   <<SecurityNotice>>, <<"there">>, <<"">>, <<" ">>}

\* content.split('\n'): at least one line, the empty input gives <<"">>
Contents == UNION {[1..n -> LineInputs] : n \in 1..MaxLines}

NoMsg == [sender |-> "none"]     \* currentMsg = null

\* line.match(WHATSAPP_REGEX)
IsMatch(line) == Len(line) = 4

\* String.prototype.trim on the strings of the model
trim(str) ==
  CASE str = " " -> ""
    [] str = "Bob " -> "Bob"
    [] OTHER -> str

\* parseTimestamp, lines 401-430.  The result is the Date given by its
\* fields (month counted from 0); the dates of the model are calendar dates
\* in the reading the code chooses, so `new Date` moves none of them.
parseTimestamp_dayFirst(dateStr, timeStr) ==
  LET a == dateStr[1]
      b == dateStr[2]
      y == dateStr[3]
      dm == IF a > 12 THEN [day |-> a, month |-> b - 1]
            ELSE IF b > 12 THEN [month |-> a - 1, day |-> b]
            ELSE [month |-> b - 1, day |-> a]
      year == IF y < 100 THEN y + 2000 ELSE y
      isPM == timeStr[3] = "pm"
      isAM == timeStr[3] = "am"
      h1 == IF isPM /\ timeStr[1] # 12 THEN timeStr[1] + 12 ELSE timeStr[1]
      h == IF isAM /\ h1 = 12 THEN 0 ELSE h1
  IN [year |-> year, month |-> dm.month, day |-> dm.day, hours |-> h,
      minutes |-> timeStr[2]]
parseTimestamp(dateStr, timeStr) ==
  LET a == dateStr[1]
      b == dateStr[2]
      y == dateStr[3]
      dm == IF a > 12 THEN [day |-> a, month |-> b - 1]
            ELSE IF b > 12 THEN [month |-> a - 1, day |-> b]
            ELSE [month |-> a - 1, day |-> b]
      year == IF y < 100 THEN y + 2000 ELSE y
      isPM == timeStr[3] = "pm"
      isAM == timeStr[3] = "am"
      h1 == IF isPM /\ timeStr[1] # 12 THEN timeStr[1] + 12 ELSE timeStr[1]
      h == IF isAM /\ h1 = 12 THEN 0 ELSE h1
  IN [year |-> year, month |-> dm.month, day |-> dm.day, hours |-> h,
      minutes |-> timeStr[2]]

\* isSystemMessage, lines 432-434, on the texts of the model: the first
\* pattern matches E2ENotice, /your security code/i matches SecurityNotice
isSystemMessage(text) == text \in {E2ENotice, SecurityNotice}

\* participantSet.add(sender): a Set keeps insertion order
addParticipant_push(set, sender) == Append(set, sender)
addParticipant(set, sender) ==
  IF \E k \in 1..Len(set) : set[k] = sender THEN set ELSE Append(set, sender)

\* lines 450-455 and 473-476: push the message in flight
pushCurrent(p) ==
  IF p.currentMsg = NoMsg THEN p
  ELSE [p EXCEPT !.messages = Append(@, p.currentMsg),
                 !.participantSet =
                    IF p.currentMsg.isSystem THEN @
                    ELSE addParticipant(@, p.currentMsg.sender)]

\* line 469: currentMsg.text += '\n' + line
appendLine_noSeparator(text, line) == text \o <<line>>
appendLine(text, line) == text \o <<"\n", line>>

NotSystem(m) == ~m.isSystem

\* lines 436-442: split the content, initialise the locals
parseStart(content) ==
  /\ parser.pc = "idle"
  /\ parser' = [pc |-> "loop", lines |-> content, i |-> 1, messages |-> <<>>,
                participantSet |-> <<>>, preview |-> <<>>,
                currentMsg |-> NoMsg, lineCount |-> 0]
  /\ resp' = NoResp
  /\ UNCHANGED <<now, user_roles, chat_messages, user_subscriptions,
                 daily_usage, hookVars, promoVars, payVars>>

\* lines 444-471: one turn of the loop (the id of a message, a random uuid,
\* is left out)
parseLine ==
  /\ parser.pc = "loop"
  /\ parser.i <= Len(parser.lines)
  /\ LET line == parser.lines[parser.i]
         p1 == IF parser.lineCount < PreviewLimit
               THEN [parser EXCEPT !.preview = Append(@, line),
                                   !.lineCount = @ + 1]
               ELSE parser
         p2 == IF IsMatch(line)
               THEN [pushCurrent(p1) EXCEPT !.currentMsg =
                       [timestamp |-> parseTimestamp(line[1], line[2]),
                        sender |-> trim(line[3]),
                        text |-> <<trim(line[4])>>,
                        isSystem |-> isSystemMessage(trim(line[4]))]]
               ELSE IF p1.currentMsg # NoMsg /\ trim(line[1]) # ""
               THEN [p1 EXCEPT !.currentMsg.text = appendLine(@, line[1])]
               ELSE p1
     IN parser' = [p2 EXCEPT !.i = @ + 1]
  /\ resp' = NoResp
  /\ UNCHANGED <<now, user_roles, chat_messages, user_subscriptions,
                 daily_usage, hookVars, promoVars, payVars>>

\* lines 473-482: push the last message, filter the system messages out
parseReturn ==
  /\ parser.pc = "loop"
  /\ parser.i > Len(parser.lines)
  /\ LET p == pushCurrent(parser)
     IN parser' = [pc |-> "done", lines |-> parser.lines,
                   result |-> [messages |-> SelectSeq(p.messages, NotSystem),
                               participants |-> p.participantSet,
                               preview |-> p.preview]]
  /\ resp' = NoResp
  /\ UNCHANGED <<now, user_roles, chat_messages, user_subscriptions,
                 daily_usage, hookVars, promoVars, payVars>>

\* the date and time groups of a header line: day and month in either
\* order, years of two and of four digits, 12-hour and 24-hour times
DateInputs ==
  {<<a, b, y>> : a \in {1, 12, 13, 31}, b \in {1, 12, 13, 31},
                 y \in {0, 24, 99, 100, 2024}}
    \ {d \in {1, 12, 13, 31} \X {1, 12, 13, 31} \X {0, 24, 99, 100, 2024} :
          d[1] > 12 /\ d[2] > 12}
TimeInputs ==
  {<<9, 15, "am">>, <<12, 0, "am">>, <<12, 30, "pm">>, <<9, 15, "pm">>,
   <<21, 5, "">>}

\* one call of parseTimestamp on the groups of a header line
parseTimestampCall(dateStr, timeStr) ==
  /\ parser.pc \in {"idle", "timestamp"}
  /\ parser' = [pc |-> "timestamp", dateStr |-> dateStr, timeStr |-> timeStr,
                result |-> parseTimestamp(dateStr, timeStr)]
  /\ resp' = NoResp
  /\ UNCHANGED <<now, user_roles, chat_messages, user_subscriptions,
                 daily_usage, hookVars, promoVars, payVars>>

NextTimestamp ==
  \E dateStr \in DateInputs, timeStr \in TimeInputs :
     parseTimestampCall(dateStr, timeStr)

SpecTimestamp == Init /\ [][NextTimestamp]_vars

NextParse ==
  \/ \E content \in Contents : parseStart(content)
  \/ parseLine
  \/ parseReturn

SpecParse == Init /\ [][NextParse]_vars

NextUsage ==
  \/ \E s \in Sessions : refreshUsage(s)
  \/ \E s \in Sessions : incrementUsageReject(s)
  \/ \E s \in Sessions : incrementUsageStart(s)
  \/ \E c \in BagToSet(inflight) : incrementUsageDone(c)
  \/ \E c \in BagToSet(inflight) : incrementUsageError(c)

SpecUsage == Init /\ [][NextUsage]_vars

\* One client that stays open while the clock passes dates and period ends
\* and an admin changes the user's subscription.
NextQuota ==
  \/ Tick
  \/ \E s \in OpenSessions : refreshUsage(s)
  \/ \E s \in OpenSessions : incrementUsagePro(s)
  \/ \E s \in OpenSessions : incrementUsageReject(s)
  \/ \E s \in OpenSessions : incrementUsageStart(s)
  \/ \E c \in BagToSet(inflight) : incrementUsageDone(c)
  \/ \E c \in BagToSet(inflight) : incrementUsageError(c)
  \/ \E c \in Admins, u \in ChatUsers, r \in QuotaRequests :
       AdminUpdateSubscription(c, u, r.plan, r.status, r.duration)

SpecQuota == Init /\ [][NextQuota]_vars

\* =================================================================
\* Properties
\* =================================================================

\* C1: for a free user and one date, the number of sends incrementUsage
\* accepts never exceeds the daily limit of 10, under any interleaving.
C1_AcceptedWithinLimit ==
  \A k \in DOMAIN accepted : accepted[k] <= FREE_MSG_LIMIT

\* C2: the stored messages_sent of every (user, date) row of a free user is
\* at most 10 in every reachable state.
C2_StoredWithinLimit ==
  \A k \in DOMAIN daily_usage : daily_usage[k] <= FREE_MSG_LIMIT

\* the stored counter stands at the limit while more sends than the limit
\* have been accepted by concurrent calls
C2_Witness ==
  /\ messages_sent("u1", 0) = FREE_MSG_LIMIT
  /\ accepted[<<"u1", 0>>] > FREE_MSG_LIMIT

\* C3: a send attempted while the user is free and the stored count of the
\* day is 10 returns false and issues no write.
C3_RejectedAtCap ==
  ret.atCap => (~ret.result /\ ~ret.wrote)

\* C4: timesUsed never exceeds maxUses when maxUses is set, and a code with
\* maxUses = 1 is redeemed successfully at most maxUses times.
C4_TimesUsedWithinMax ==
  \A p \in PromoIds :
     (IsRow(promo_codes[p]) /\ promo_codes[p].max_uses # NullInt) =>
        /\ promo_codes[p].times_used <= promo_codes[p].max_uses
        /\ successes[p] <= promo_codes[p].max_uses

\* C5: a redeem-promo call of a user who already had a redemption record of
\* the code when it arrived changes neither promo_codes nor the
\* subscriptions and is not answered with success.
C5_DuplicateAborts ==
  [][\A r \in Slots :
       (redeem[r] # Idle /\ redeem[r].already /\ redeem'[r] # redeem[r]) =>
          /\ promo_codes' = promo_codes
          /\ user_subscriptions' = user_subscriptions
          /\ ~(resp'.op = "redeem-promo" /\ resp'.status = 200)]_vars

\* the validation the spec asks of the server at the time of the call
ServerValid(u, p) ==
  /\ IsRow(promo_codes[p])
  /\ promo_codes[p].is_active
  /\ promo_codes[p].valid_from <= now
  /\ promo_codes[p].valid_until = NullTime \/ promo_codes[p].valid_until >= now
  /\ promo_codes[p].max_uses = NullInt
       \/ promo_codes[p].times_used < promo_codes[p].max_uses
  /\ ~BagIn(<<p, u>>, promo_redemptions)

\* C6: redeem-promo goes past its validation only for a code that, at the
\* time of the call, exists, is active, is within its validity window, has
\* uses left and was not redeemed by the caller before.
C6_RevalidatesOnServer ==
  [][\A r \in Slots :
       (redeem[r] = Idle /\ redeem'[r] # Idle) =>
          ServerValid(redeem'[r].user, redeem'[r].promoId)]_vars

\* a code that represents 100% off, in the words of the claim
FullyCovering(promo) ==
  \/ promo.discount_type = "percentage" /\ promo.discount_value >= 100
  \/ promo.discount_type = "fixed" /\ promo.discount_value >= 499

\* C7: redeem-promo goes on to grant pro only for a fully covering code; a
\* call that is answered with a failure leaves promo_redemptions, promo_codes
\* and the subscriptions unchanged.
C7_DirectOnlyIfCovering ==
  [][/\ \A r \in Slots :
          (redeem[r] = Idle /\ redeem'[r] # Idle) =>
             FullyCovering(promo_codes[redeem'[r].promoId])
     /\ (resp'.op = "redeem-promo" /\ resp'.status = 400) =>
          UNCHANGED <<promo_redemptions, promo_codes, user_subscriptions>>
     /\ \A u \in Users :
          (user_subscriptions'[u] # user_subscriptions[u]) =>
             (resp'.op = "redeem-promo" /\ resp'.status = 200
              /\ resp'.caller = u)]_vars

\* a 50% code was refused and nobody was upgraded
C7_Witness ==
  /\ resp.op = "redeem-promo"
  /\ resp.status = 400
  /\ resp.error = "Please proceed with payment"
  /\ promo_codes[resp.promoId].discount_value = 50
  /\ \A u \in Users : user_subscriptions[u] = NoRow

IsProRow(sub) == sub # NoRow /\ sub.plan = "pro"

\* C8: a subscription becomes pro only by an admin update-subscription, a
\* payment confirmation with a verified signature, or a promo redemption.
C8_ProOnlyByTrigger ==
  [][\A u \in Users :
       (~IsProRow(user_subscriptions[u]) /\ IsProRow(user_subscriptions'[u])) =>
          /\ resp'.status = 200
          /\ resp'.op \in {"update-subscription", "verify", "webhook",
                           "redeem-promo"}]_vars

\* C9: a confirmation whose signature is not the keyed hash of its message is
\* answered with 400 and leaves user_subscriptions unchanged.
C9_BadSignatureRejected ==
  [][(resp'.op \in {"verify", "webhook"} /\ ~resp'.genuine) =>
        (resp'.status = 400 /\ user_subscriptions' = user_subscriptions)]_vars

\* a signature the gateway issued for another message was refused after the
\* payment had been captured
C9_Witness ==
  /\ resp.op = "verify"
  /\ resp.status = 400
  /\ ~resp.genuine
  /\ Body("payment.captured", "pay1", "u1") \in gateway_events

\* C10: once a payment id has activated a subscription, a further accepted
\* confirmation of the same payment id changes no subscription row.
C10_AppliedOncePerPayment ==
  [][\A p \in Payments :
       (p \in applied /\ resp'.op \in {"verify", "webhook"}
        /\ resp'.status = 200 /\ resp'.payment = p) =>
          user_subscriptions' = user_subscriptions]_vars

\* C11: a send is accepted as unlimited only while the stored subscription
\* row is pro, active and not past its current_period_end; after the period
\* end has passed the next send is counted, without any refresh.
C11_UnlimitedOnlyWhileEntitled ==
  ret.asPro # "lapsed"

\* C12: the counter is per (user, date): the write that creates the row of a
\* date stores 1, whatever was reached on an earlier date, and a free user is
\* refused by the limit only if the stored count of today is at the limit.
C12_CounterPerDate ==
  [][/\ \A u \in ChatUsers, d \in 0..MaxTime :
          (<<u, d>> \notin DOMAIN daily_usage
           /\ <<u, d>> \in DOMAIN daily_usage') =>
             daily_usage'[<<u, d>>] = 1
     /\ (ret' # ret /\ ~ret'.result /\ inflight' = inflight
         /\ EffectivePlan(user_subscriptions["u1"], now) = "free") =>
            messages_sent("u1", today) >= FREE_MSG_LIMIT]_vars

\* the codes a typed code names, matched without regard to case
Named(code) ==
  {p \in PromoIds : IsRow(promo_codes[p])
                    /\ toUpperCase(promo_codes[p].code) = toUpperCase(code)}

\* C13: validate-promo answers valid=true exactly when the code exists, is
\* active, now is within [valid_from, valid_until or infinity], uses are left
\* under the cap, and the caller has no redemption of it; otherwise it
\* answers valid=false with a reason.
C13_ValidIffConditions ==
  resp.op = "validate-promo" =>
     /\ resp.valid <=> \E p \in Named(resp.code) : ServerValid(resp.caller, p)
     /\ ~resp.valid => resp.error # Null

\* C14 as stated: a code whose valid_until is in the past is answered with
\* the reason 'expired' whatever its other attributes are.
C14_ExpiredWhateverElse ==
  (resp.op = "validate-promo"
   /\ \E p \in Named(resp.code) :
         promo_codes[p].valid_until # NullTime
         /\ promo_codes[p].valid_until < now) =>
     (~resp.valid /\ resp.error = "Promo code expired")

\* C14 amended: an active code whose valid_until is in the past is answered
\* with the reason 'expired' whatever its remaining uses and the caller's
\* redemption history are.
C14_ActiveExpired ==
  (resp.op = "validate-promo"
   /\ \E p \in Named(resp.code) :
         promo_codes[p].is_active
         /\ promo_codes[p].valid_until # NullTime
         /\ promo_codes[p].valid_until < now) =>
     (~resp.valid /\ resp.error = "Promo code expired")

\* an expired code that the caller has redeemed and that is used up is
\* answered with 'expired'
C14_Witness ==
  /\ resp.op = "validate-promo"
  /\ resp.error = "Promo code expired"
  /\ \E p \in Named(resp.code) :
        /\ BagIn(<<p, resp.caller>>, promo_redemptions)
        /\ promo_codes[p].max_uses # NullInt
        /\ promo_codes[p].times_used >= promo_codes[p].max_uses

\* C15: promo_redemptions never holds more than one row of the same
\* (promo code, user) pair, however redeem-promo calls interleave.
C15_OneRedemptionPerPair ==
  \A row \in BagToSet(promo_redemptions) :
     CopiesIn(row, promo_redemptions) <= 1

\* two calls of the same user passed the read before either inserted; the
\* first insert is in the table and the second was rejected
C15_Witness ==
  \E r, q \in Slots :
     /\ r # q
     /\ redeem[r] # Idle /\ redeem[q] # Idle
     /\ redeem[r].user = redeem[q].user
     /\ redeem[r].promoId = redeem[q].promoId
     /\ ~redeem[r].already /\ ~redeem[q].already
     /\ ~redeem[r].failed /\ redeem[q].failed
     /\ redeem[r].pc # "insert"
     /\ CopiesIn(<<redeem[r].promoId, redeem[r].user>>, promo_redemptions) = 1

\* the length of a period of each plan_duration, in weeks
PeriodLength(d) ==
  CASE d = "week" -> 1 [] d = "month" -> 4 [] d = "year" -> 52 [] OTHER -> 0

\* C16: every transition from free to pro by an admin upgrade, a verified
\* payment, a captured-payment webhook or a promo redemption leaves the row
\* with status active, current_period_start = now, a plan_duration of week,
\* month or year and current_period_end = now + that plan_duration.
C16_DurationAgreesWithPeriod ==
  [][\A u \in Users :
       (/\ EffectivePlan(user_subscriptions[u], now) = "free"
        /\ EffectivePlan(user_subscriptions'[u], now) = "pro"
        /\ resp'.status = 200
        /\ resp'.op \in {"update-subscription", "verify", "webhook",
                         "redeem-promo"}) =>
          /\ user_subscriptions'[u].status = "active"
          /\ user_subscriptions'[u].current_period_start = now
          /\ user_subscriptions'[u].plan_duration \in Durations
          /\ user_subscriptions'[u].current_period_end =
               now + PeriodLength(user_subscriptions'[u].plan_duration)]_vars

C18_AllOrNothing ==
  [][/\ \A r \in Slots :
          (redeem[r] # Idle /\ redeem[r].failed /\ redeem'[r] # redeem[r]) =>
             /\ promo_codes' = promo_codes
             /\ user_subscriptions' = user_subscriptions
             /\ ~(resp'.op = "redeem-promo" /\ resp'.status = 200)
     /\ (ret' # ret /\ ~ret'.result) =>
          (daily_usage' = daily_usage /\ accepted' = accepted)]_vars

\* the tables of the database
Tables ==
  <<user_roles, user_subscriptions, daily_usage, promo_codes,
    promo_redemptions, chat_messages>>

\* C19: an admin-api request for any action but validate-promo and
\* redeem-promo (an unknown or missing action included) by a signed-in user
\* without the admin role is answered 403 and changes no table; a request
\* without a valid token is answered with an error and changes no table.
C19_NonAdminRejected ==
  [][/\ (resp'.op \in AdminActions /\ resp'.caller # Null
         /\ resp'.caller \notin user_roles) =>
            (resp'.status = 403 /\ Tables' = Tables)
     /\ (resp'.op \in AdminActions /\ resp'.caller = Null) =>
            (resp'.status \in {400, 401} /\ Tables' = Tables)]_vars

\* a user without the role asked for delete-subscription, was answered 403
\* and the pro row is still there
C19_Witness ==
  /\ resp.op = "delete-subscription"
  /\ resp.status = 403
  /\ resp.caller = "u1"
  /\ "u1" \notin user_roles
  /\ IsProRow(user_subscriptions["u1"])

\* the export of the scenario, line by line
ExampleExport ==
  <<<<<<12, 3, 24>>, <<9, 15, "am">>, "Alice", "hi">>,
    <<"there">>,
    <<<<12, 3, 24>>, <<9, 16, "am">>, "Bob", "hello">>>>

\* the text without the white space around it
Trimmed(str) == IF str = "Bob " THEN "Bob" ELSE IF str = " " THEN "" ELSE str

\* C20: a header line finalizes the message in flight and starts a new one;
\* a following non-blank line that is not a header is appended to the
\* message in flight after a newline; the export of the scenario gives
\* exactly Alice/"hi\nthere"/09:15 and Bob/"hello"/09:16.
C20_MultiLineRebuilt ==
  [][/\ (parser.pc = "loop" /\ parser'.pc = "loop") =>
          LET line == parser.lines[parser.i]
              cur == parser.currentMsg
          IN /\ Len(line) = 4 =>
                  /\ parser'.messages = IF cur = NoMsg THEN parser.messages
                                        ELSE Append(parser.messages, cur)
                  /\ parser'.currentMsg.sender = Trimmed(line[3])
                  /\ parser'.currentMsg.text = <<line[4]>>
             /\ (Len(line) = 1 /\ line[1] \notin {"", " "} /\ cur # NoMsg) =>
                  /\ parser'.messages = parser.messages
                  /\ parser'.currentMsg.sender = cur.sender
                  /\ parser'.currentMsg.text = cur.text \o <<"\n", line[1]>>
     /\ (parser'.pc = "done" /\ parser'.lines = ExampleExport) =>
          LET out == parser'.result.messages
          IN /\ Len(out) = 2
             /\ out[1].sender = "Alice"
             /\ out[1].text = <<"hi", "\n", "there">>
             /\ out[1].timestamp.hours = 9 /\ out[1].timestamp.minutes = 15
             /\ out[2].sender = "Bob"
             /\ out[2].text = <<"hello">>
             /\ out[2].timestamp.hours = 9
             /\ out[2].timestamp.minutes = 16]_vars

\* the export of the scenario has been parsed to its end
C20_Witness ==
  /\ parser.pc = "done"
  /\ parser.lines = ExampleExport
  /\ Len(parser.result.messages) = 2

\* ---- C21
\* the text matches one of SYSTEM_PATTERNS
MatchesSystemPattern(text) == text \in {E2ENotice, SecurityNotice}

\* the body of a message, given as its pieces, matches one of the patterns
\* (the patterns of the notices of the model are not anchored)
BodyMatches(body) == \E k \in 1..Len(body) : MatchesSystemPattern(body[k])

HeaderIndexes(lines) == {i \in 1..Len(lines) : Len(lines[i]) = 4}

\* C21 as stated: no returned message has a body that matches one of the
\* system patterns.
C21_NoSystemBody ==
  parser.pc = "done" =>
    \A k \in 1..Len(parser.result.messages) :
       ~BodyMatches(parser.result.messages[k].text)

\* What holds of C21: a message whose header line carries a text matching
\* one of the system patterns is never returned and never gives its sender to the
\* participants; every one of the first 30 input lines is in the preview
\* as it was given; an input whose header lines all carry system texts
\* (the end-to-end-encryption notice alone, for one) gives zero messages.
C21_SystemHeadersDropped ==
  parser.pc = "done" =>
    LET lines == parser.lines
        out == parser.result
        plain == {i \in HeaderIndexes(lines) :
                    ~MatchesSystemPattern(lines[i][4])}
    IN /\ \A k \in 1..Len(out.messages) :
             ~MatchesSystemPattern(out.messages[k].text[1])
       /\ Len(out.messages) = Cardinality(plain)
       /\ \A k \in 1..Len(out.participants) :
             \E i \in plain : Trimmed(lines[i][3]) = out.participants[k]
       /\ \A i \in 1..Len(lines) :
             i <= PreviewLimit => /\ i <= Len(out.preview)
                                  /\ out.preview[i] = lines[i]
       /\ plain = {} => out.messages = <<>>

\* the notice is the only header of the input: nothing is returned, nobody
\* takes part, the line is in the preview
C21_Witness ==
  /\ parser.pc = "done"
  /\ parser.lines = <<<<ExportDate, <<9, 14, "am">>, "Carol", E2ENotice>>>>
  /\ parser.result.messages = <<>>
  /\ parser.result.participants = <<>>
  /\ parser.result.preview = parser.lines

\* ---- C22
\* position of the first returned message of the sender
FirstMessageOf(ms, sender) ==
  CHOOSE k \in 1..Len(ms) :
    /\ ms[k].sender = sender
    /\ \A j \in 1..(k - 1) : ms[j].sender # sender

\* C22: for every input the participants have no duplicate, are the
\* senders of the returned messages and nobody else, stand in the order
\* in which they first appear among these messages, and are sender names
\* of the input without the white space around them.
C22_ParticipantsAreSenders ==
  parser.pc = "done" =>
    LET ms == parser.result.messages
        ps == parser.result.participants
        lines == parser.lines
    IN /\ \A i, j \in 1..Len(ps) : i # j => ps[i] # ps[j]
       /\ {ps[k] : k \in 1..Len(ps)} = {ms[k].sender : k \in 1..Len(ms)}
       /\ \A i, j \in 1..Len(ps) :
             i < j => FirstMessageOf(ms, ps[i]) < FirstMessageOf(ms, ps[j])
       /\ \A k \in 1..Len(ps) :
             \E i \in HeaderIndexes(lines) : ps[k] = Trimmed(lines[i][3])
       /\ \A k \in 1..Len(ps) : ps[k] = Trimmed(ps[k])

\* Bob writes twice, once with a space before the colon, then Alice: three
\* messages, two participants, Bob first
C22_Witness ==
  /\ parser.pc = "done"
  /\ parser.lines = <<<<ExportDate, <<9, 16, "am">>, "Bob", "hello">>,
                      <<ExportDate, <<9, 17, "am">>, "Bob ", "ok">>,
                      <<ExportDate, <<9, 15, "am">>, "Alice", "hi">>>>
  /\ Len(parser.result.messages) = 3
  /\ parser.result.participants = <<"Bob", "Alice">>

\* ---- C23
\* ''.split('\n'), the lines of the empty input
EmptyInput == <<<<"">>>>

\* C23: parsing the empty input returns no message, no participant and an
\* empty preview; an input without any header line returns no message and
\* no participant, and its lines are in the preview.
C23_EmptyInputEmptyResult ==
  parser.pc = "done" =>
    /\ parser.lines = EmptyInput =>
          /\ parser.result.messages = <<>>
          /\ parser.result.participants = <<>>
          /\ parser.result.preview = <<>>
    /\ HeaderIndexes(parser.lines) = {} =>
          /\ parser.result.messages = <<>>
          /\ parser.result.participants = <<>>
          /\ parser.result.preview = parser.lines

\* What holds of C23: an input without any header line, the empty input
\* included, returns no message and no participant, and its lines, the
\* one empty line of the empty input included, are the preview.
C23_NoHeaderNothingParsed ==
  (parser.pc = "done" /\ HeaderIndexes(parser.lines) = {}) =>
    /\ parser.result.messages = <<>>
    /\ parser.result.participants = <<>>
    /\ parser.result.preview = parser.lines

\* ---- C24
\* the two orders in which an export writes day and month
DateFormats == {"day-first", "month-first"}
DayOf(f, date) == IF f = "day-first" THEN date[1] ELSE date[2]
MonthOf(f, date) == IF f = "day-first" THEN date[2] ELSE date[1]
ValidIn(f, date) == MonthOf(f, date) \in 1..12 /\ DayOf(f, date) \in 1..31

\* the hour of the day a 12-hour clock time stands for
ClockHour(time) ==
  CASE time[3] = "am" -> (IF time[1] = 12 THEN 0 ELSE time[1])
    [] time[3] = "pm" -> (IF time[1] = 12 THEN 12 ELSE time[1] + 12)
    [] OTHER -> time[1]

\* a number that grows with the instant: of a header line read in format
\* f, and of a parsed timestamp (its month counts from 0)
Instant(year, month, day, hours, minutes) ==
  (((year * 12 + month) * 31 + day) * 24 + hours) * 60 + minutes
HeaderInstant(f, line) ==
  Instant(IF line[1][3] < 100 THEN 2000 + line[1][3] ELSE line[1][3],
          MonthOf(f, line[1]), DayOf(f, line[1]), ClockHour(line[2]),
          line[2][2])
TimestampInstant(ts) ==
  Instant(ts.year, ts.month + 1, ts.day, ts.hours, ts.minutes)

\* the header lines are written in format f and are in chronological order
Chronological(f, lines) ==
  /\ \A i \in HeaderIndexes(lines) : ValidIn(f, lines[i][1])
  /\ \A i, j \in HeaderIndexes(lines) :
        i < j => HeaderInstant(f, lines[i]) <= HeaderInstant(f, lines[j])

\* C24: for an export whose header lines are in chronological order, all
\* in one date format, the timestamps of the returned messages never
\* decrease along the output.
C24_TimestampsNeverDecrease ==
  (parser.pc = "done" /\ \E f \in DateFormats : Chronological(f, parser.lines))
    => LET ms == parser.result.messages
       IN \A k \in 1..(Len(ms) - 1) :
            TimestampInstant(ms[k].timestamp)
              <= TimestampInstant(ms[k + 1].timestamp)

\* ---- C26
\* C26: of a date a/b/y parseTimestamp makes day a and month b when a is
\* above 12, month a and day b when a is not and b is above 12, and month a
\* and day b when neither is; a year below 100 has 2000 added, a year from
\* 100 on is kept.
C26_DayMonthYearChosen ==
  parser.pc = "timestamp" =>
    LET a == parser.dateStr[1]
        b == parser.dateStr[2]
        y == parser.dateStr[3]
        d == parser.result
        monthOfYear == d.month + 1
    IN /\ a > 12 => (d.day = a /\ monthOfYear = b)
       /\ (a <= 12 /\ b > 12) => (monthOfYear = a /\ d.day = b)
       /\ (a <= 12 /\ b <= 12) => (monthOfYear = a /\ d.day = b)
       /\ y < 100 => d.year = y + 2000
       /\ y >= 100 => d.year = y

\* 12/01/100: neither part is above 12, so month 12 and day 1, of year 100
C26_Witness ==
  /\ parser.pc = "timestamp"
  /\ parser.dateStr = <<12, 1, 100>>
  /\ parser.result.month = 11
  /\ parser.result.day = 1
  /\ parser.result.year = 100

RedemptionRows(p) ==
  Cardinality({uk \in Users \X (1..(MaxRedeems + 1)) :
                 uk[2] <= CopiesIn(<<p, uk[1]>>, promo_redemptions)})

\* C27: once the redeem-promo calls, made by different users and in any
\* interleaving, have returned, times_used of a code equals the number of
\* promo_redemptions rows that reference it.  (Each user of the
\* specification has one call at a time and every answered call has left a
\* row, so no call was a repeat by the same user.)
C27_TimesUsedCountsRedemptions ==
  \A p \in PromoIds :
     (/\ IsRow(promo_codes[p])
      /\ \A r \in Slots : redeem[r] = Idle
      /\ successes[p] = RedemptionRows(p))
       => promo_codes[p].times_used = RedemptionRows(p)

\* ---- C28
\* C28: no step, whatever the client sessions that send, makes the stored
\* messages_sent of a user and date smaller than it was.
C28_CounterNeverDecreases ==
  [][\A k \in DOMAIN daily_usage :
       k \in DOMAIN daily_usage' /\ daily_usage'[k] >= daily_usage[k]]_vars

\* ---- C29
\* the code would pass validation for the user now: it exists, is active,
\* is not past its validity, has uses left and was not used by the user
WouldValidate(u, p) ==
  /\ p \in PromoIds
  /\ promo_codes[p] \notin {NoPromo, Deleted}
  /\ promo_codes[p].is_active
  /\ promo_codes[p].valid_until = NullTime \/ promo_codes[p].valid_until >= now
  /\ promo_codes[p].max_uses = NullInt
       \/ promo_codes[p].times_used < promo_codes[p].max_uses
  /\ ~BagIn(<<p, u>>, promo_redemptions)

\* an order has just been made
OrderMade == resp.op = "create-order" /\ resp.status = 200

\* C29: an order is below the base price of its currency only when the
\* code given would pass validation for the requesting user at that time;
\* with an expired, exhausted or already-used code the full price is
\* charged.
C29_DiscountOnlyForValidCode ==
  (OrderMade /\ resp.amount # IF resp.currency = "INR" THEN 49900 ELSE 900)
    => WouldValidate(resp.caller, resp.promoId)

\* ---- C30
\* C30: in either currency and for every code, the amount of an order is
\* at least 100 minor units and at most the base price of the currency.
C30_AmountWithinBounds ==
  OrderMade =>
    /\ resp.amount >= 100
    /\ resp.amount <= IF resp.currency = "INR" THEN 49900 ELSE 900
====
